---- MODULE Spec2Model ----
(***************************************************************************)
(* Load-time behaviour of railway/superset_config.py.                      *)
(*                                                                         *)
(* The module is a straight-line program executed once at import: it reads *)
(* the process environment, derives values and binds module-level names.   *)
(* A statement either binds its names and passes control to the next one,  *)
(* or raises, which ends the load.  Each statement group of the file is    *)
(* one action; pc is the position of the load, env the process             *)
(* environment (fixed during the load), cfg the values bound so far and    *)
(* defined the set of module-level names bound so far.                     *)
(*                                                                         *)
(* Text is modelled as a sequence of one-character strings, so that        *)
(* startswith, endswith, replace, lower, int and the URL splitting are     *)
(* computed character by character as the interpreter computes them.       *)
(* An optional text (the result of os.environ.get without default) is      *)
(* << >> for None and <<s>> for the text s.                                *)
(*                                                                         *)
(* Modelled are the statements that can raise and the names the properties *)
(* below speak of.  The remaining statements of the file (feature flags,   *)
(* SMTP texts, logging, CSRF and Flask constants) read the environment     *)
(* with a default or bind literals; none of them can raise and none        *)
(* rebinds a modelled name.                                                *)
(***************************************************************************)
EXTENDS Integers, Sequences, FiniteSets

VARIABLES env, pc, err, cfg, defined

vars == <<env, pc, err, cfg, defined>>

----------------------------------------------------------------------------
(* Text helpers (Python str methods)                                       *)

None == << >>

\* the element of a one-element set: names a value that is computed once
Only(S) == CHOOSE x \in S : TRUE

Some(s) == <<s>>

UpperAlpha ==
  <<"A","B","C","D","E","F","G","H","I","J","K","L","M",
    "N","O","P","Q","R","S","T","U","V","W","X","Y","Z">>

LowerAlpha ==
  <<"a","b","c","d","e","f","g","h","i","j","k","l","m",
    "n","o","p","q","r","s","t","u","v","w","x","y","z">>

Digits == <<"0","1","2","3","4","5","6","7","8","9">>

IsUpper(c) == \E i \in 1..Len(UpperAlpha) : UpperAlpha[i] = c

IsLower(c) == \E i \in 1..Len(LowerAlpha) : LowerAlpha[i] = c

IsDigit(c) == \E i \in 1..Len(Digits) : Digits[i] = c

DigitVal(c) == (CHOOSE i \in 1..Len(Digits) : Digits[i] = c) - 1

LowerChar(c) ==
  IF IsUpper(c)
    THEN LowerAlpha[CHOOSE i \in 1..Len(UpperAlpha) : UpperAlpha[i] = c]
    ELSE c

\* the text as it is, case untouched
NoLower(s) == s

\* str.lower()
Lower(s) == [i \in 1..Len(s) |-> LowerChar(s[i])]

\* str.startswith(p)
StartsWith(s, p) == Len(s) >= Len(p) /\ SubSeq(s, 1, Len(p)) = p

\* str.endswith(p)
EndsWith(s, p) ==
  Len(s) >= Len(p) /\ SubSeq(s, Len(s) - Len(p) + 1, Len(s)) = p

\* str.find(p) + 1: the position of the first occurrence of p, 0 if none
Find(s, p) ==
  LET hits == {i \in 1..(Len(s) - Len(p) + 1) : SubSeq(s, i, i + Len(p) - 1) = p}
  IN  IF hits = {} THEN 0 ELSE CHOOSE i \in hits : \A j \in hits : i <= j

\* str.replace(old, new) without a count: every occurrence, left to right
RECURSIVE ReplaceEvery(_, _, _)
ReplaceEvery(s, old, new) ==
  Only({ IF i = 0 \/ old = << >>
           THEN s
           ELSE SubSeq(s, 1, i - 1) \o new
                \o Only({ ReplaceEvery(rest, old, new) :
                          rest \in {SubSeq(s, i + Len(old), Len(s))} }) :
         i \in {Find(s, old)} })

\* str.replace(old, new, 1): the first occurrence only
ReplaceFirst(s, old, new) ==
  Only({ IF i = 0
           THEN s
           ELSE SubSeq(s, 1, i - 1) \o new \o SubSeq(s, i + Len(old), Len(s)) :
         i \in {Find(s, old)} })

\* a test for None alone, which lets the empty text through
NotNone(o) == o # None

\* Python truth value of an optional text: None and '' are false
Truthy(o) == o # None /\ o[1] # << >>

----------------------------------------------------------------------------
(* int(text), base 10                                                      *)

\* str.strip() of blanks at both ends
Strip(s) ==
  LET inked == {i \in 1..Len(s) : s[i] # " "}
  IN  IF inked = {} THEN << >>
      ELSE SubSeq(s, CHOOSE i \in inked : \A j \in inked : i <= j,
                     CHOOSE i \in inked : \A j \in inked : i >= j)

\* the text after an optional leading sign
Unsigned(s) ==
  IF s # << >> /\ Head(s) \in {"+", "-"} THEN Tail(s) ELSE s

\* digits, with single underscores allowed between two digits
IsDigitRun(s) ==
  /\ s # << >>
  /\ \A i \in 1..Len(s) :
       \/ IsDigit(s[i])
       \/ /\ s[i] = "_"
          /\ i > 1 /\ i < Len(s)
          /\ IsDigit(s[i - 1]) /\ IsDigit(s[i + 1])

\* int(s) does not raise ValueError
IsIntText(s) == \E t \in {Strip(s)} : \E u \in {Unsigned(t)} : IsDigitRun(u)

RECURSIVE DigitsValue(_, _)
DigitsValue(s, acc) ==
  IF s = << >> THEN acc
  ELSE IF Head(s) = "_" THEN DigitsValue(Tail(s), acc)
  ELSE DigitsValue(Tail(s), 10 * acc + DigitVal(Head(s)))

\* int(s), for a text int accepts
IntOf(s) ==
  Only({ IF t # << >> /\ Head(t) = "-"
           THEN 0 - DigitsValue(Unsigned(t), 0)
           ELSE DigitsValue(Unsigned(t), 0) : t \in {Strip(s)} })

----------------------------------------------------------------------------
(* urllib.parse.urlparse(url).port and redis.Redis.from_url(url), as far   *)
(* as they can raise                                                       *)

IsSchemeChar(c) == IsUpper(c) \/ IsLower(c) \/ IsDigit(c) \/ c \in {"+", "-", "."}

\* the url after its scheme and ':' (the whole url if it has no scheme)
AfterScheme(url) ==
  Only({ IF /\ i > 1
            /\ IsUpper(url[1]) \/ IsLower(url[1])
            /\ \A j \in 1..(i - 1) : IsSchemeChar(url[j])
           THEN SubSeq(url, i + 1, Len(url))
           ELSE url : i \in {Find(url, <<":">>)} })

\* the text up to the first '/', '?' or '#'
UpToDelimiter(body) ==
  LET ends == {i \in 1..Len(body) : body[i] \in {"/", "?", "#"}}
  IN  IF ends = {} THEN body
      ELSE SubSeq(body, 1, (CHOOSE i \in ends : \A j \in ends : i <= j) - 1)

\* the network location: what follows '//' up to the first '/', '?' or '#'
Netloc(url) ==
  Only({ IF ~StartsWith(rest, <<"/", "/">>) THEN << >>
         ELSE Only({ UpToDelimiter(body) : body \in {SubSeq(rest, 3, Len(rest))} }) :
         rest \in {AfterScheme(url)} })

\* what follows the last '@'
AfterLastAt(n) ==
  LET ats == {i \in 1..Len(n) : n[i] = "@"}
  IN  IF ats = {} THEN n
      ELSE SubSeq(n, (CHOOSE i \in ats : \A j \in ats : i >= j) + 1, Len(n))

\* the host part of the network location: what follows the last '@'
HostInfo(url) == Only({ AfterLastAt(n) : n \in {Netloc(url)} })

\* the port text: what follows the first ':' of the host part ('' if none)
PortText(url) ==
  Only({ Only({ IF i = 0 THEN << >> ELSE SubSeq(h, i + 1, Len(h)) :
                i \in {Find(h, <<":">>)} }) : h \in {HostInfo(url)} })

\* urlparse(url).port raises ValueError
PortRaises(url) ==
  \E p \in {PortText(url)} :
    /\ p # << >>
    /\ \/ \E i \in 1..Len(p) : ~IsDigit(p[i])
       \/ DigitsValue(p, 0) > 65535

\* urlparse(url).port, None being 0 here since 'port or 6379' treats both alike
PortOf(url) ==
  Only({ IF p = << >> THEN 0 ELSE DigitsValue(p, 0) : p \in {PortText(url)} })

RedisSchemes ==
  { <<"r","e","d","i","s",":","/","/">>,
    <<"r","e","d","i","s","s",":","/","/">>,
    <<"u","n","i","x",":","/","/">> }

\* Redis.from_url(url) raises ValueError: the url has none of the schemes
FromUrlRaises(url) == \A p \in RedisSchemes : ~StartsWith(url, p)

----------------------------------------------------------------------------
(* Literals of the configuration file                                      *)

PostgresScheme == <<"p","o","s","t","g","r","e","s",":","/","/">>

PostgresqlScheme == <<"p","o","s","t","g","r","e","s","q","l",":","/","/">>

Http == <<"h","t","t","p">>

Https == <<"h","t","t","p","s",":","/","/">>

Slash == <<"/">>

LocalBaseUrl ==
  <<"h","t","t","p",":","/","/","l","o","c","a","l","h","o","s","t",":",
    "8","0","8","8","/">>

DefaultRedisUrl ==
  <<"r","e","d","i","s",":","/","/","l","o","c","a","l","h","o","s","t",":",
    "6","3","7","9","/","0">>

RedisDefaultPort == 6379

TrueText == <<"t","r","u","e">>

Production == <<"p","r","o","d","u","c","t","i","o","n">>

\* the default texts handed to int()
DefaultText ==
  [ SQLALCHEMY_POOL_SIZE    |-> <<"1","0">>,
    SQLALCHEMY_MAX_OVERFLOW |-> <<"2","0">>,
    SQLLAB_TIMEOUT          |-> <<"3","0","0">>,
    WORKER_TIMEOUT          |-> <<"3","0","0">>,
    SESSION_LIFETIME_HOURS  |-> <<"8">>,
    CACHE_DEFAULT_TIMEOUT   |-> <<"3","0","0">>,
    SMTP_PORT               |-> <<"5","8","7">>,
    ROW_LIMIT               |-> <<"5","0","0","0">> ]

IntVars == DOMAIN DefaultText

----------------------------------------------------------------------------
(* Reading the environment and deriving values                             *)

\* os.environ.get(name)
EnvGet(name) == env[name]

\* os.environ.get(name, default)
EnvGetDefault(name, default) ==
  IF env[name] = None THEN default ELSE env[name][1]

\* the text handed to int() for an integer variable
IntText(name) == EnvGetDefault(name, DefaultText[name])

\* os.environ.get(name, default).lower() == 'true'
EnvFlag(name, default) == Lower(EnvGetDefault(name, default)) = TrueText

\* lines 35-41: the connection string derived from DATABASE_URL
DatabaseUri(url) ==
  IF Truthy(url) /\ StartsWith(url[1], PostgresScheme)
    THEN Some(ReplaceFirst(url[1], PostgresScheme, PostgresqlScheme))
    ELSE url

\* the first of the two variables that holds a non-empty text, else ''
RailwayDomainFirstNonEmpty ==
  IF Truthy(env["RAILWAY_PUBLIC_DOMAIN"]) THEN env["RAILWAY_PUBLIC_DOMAIN"][1]
  ELSE EnvGetDefault("RAILWAY_STATIC_URL", << >>)

\* line 137: RAILWAY_PUBLIC_DOMAIN, else RAILWAY_STATIC_URL, else ''
RailwayDomain ==
  EnvGetDefault("RAILWAY_PUBLIC_DOMAIN",
                EnvGetDefault("RAILWAY_STATIC_URL", << >>))

\* the base URL with no '/' after a bare domain
BaseUrlBareNoSlash(domain) ==
  IF domain # << >>
    THEN IF ~StartsWith(domain, Http)
           THEN Https \o domain
           ELSE IF EndsWith(domain, Slash) THEN domain ELSE domain \o Slash
    ELSE LocalBaseUrl

\* lines 138-144: the base URL built from the domain
BaseUrl(domain) ==
  IF domain # << >>
    THEN IF ~StartsWith(domain, Http)
           THEN Https \o domain \o Slash
           ELSE IF EndsWith(domain, Slash) THEN domain ELSE domain \o Slash
    ELSE LocalBaseUrl

\* lines 85-90
CacheConfig(timeout, url) ==
  [CACHE_TYPE |-> "RedisCache", CACHE_DEFAULT_TIMEOUT |-> timeout,
   CACHE_KEY_PREFIX |-> "superset_", CACHE_REDIS_URL |-> url]

\* the result backend left on the default URL
CeleryUrlsDefaultBackend(url) ==
  [broker_url |-> url, result_backend |-> DefaultRedisUrl]

\* lines 96-104: the two URLs of class CeleryConfig
CeleryUrls(url) == [broker_url |-> url, result_backend |-> url]

\* lines 169-181
TalismanConfig == [force_https |-> TRUE, force_https_permanent |-> TRUE]

----------------------------------------------------------------------------
(* The load, statement by statement                                        *)

\* the value every name holds before its statement has run
Unbound ==
  [ SUPERSET_ENV                    |-> << >>,
    SECRET_KEY                      |-> None,
    SQLALCHEMY_DATABASE_URI         |-> None,
    SQLALCHEMY_ENGINE_OPTIONS       |->
      [pool_size |-> 0, pool_recycle |-> 0, pool_pre_ping |-> FALSE,
       max_overflow |-> 0, connect_timeout |-> 0],
    SQLLAB_TIMEOUT                  |-> 0,
    SUPERSET_WEBSERVER_TIMEOUT      |-> 0,
    REDIS_URL                       |-> << >>,
    REDIS_PORT                      |-> 0,
    SESSION_REDIS                   |-> << >>,
    PERMANENT_SESSION_LIFETIME      |-> 0,
    SESSION_COOKIE_SECURE           |-> FALSE,
    CACHE_DEFAULT_TIMEOUT           |-> 0,
    CACHE_CONFIG                    |-> CacheConfig(0, << >>),
    DATA_CACHE_CONFIG               |-> CacheConfig(0, << >>),
    THUMBNAIL_CACHE_CONFIG          |-> CacheConfig(0, << >>),
    CeleryConfig                    |-> CeleryUrls(<< >>),
    WEBDRIVER_BASEURL               |-> << >>,
    WEBDRIVER_BASEURL_USER_FRIENDLY |-> << >>,
    SMTP_PORT                       |-> 0,
    TALISMAN_ENABLED                |-> FALSE,
    TALISMAN_CONFIG                 |->
      [force_https |-> FALSE, force_https_permanent |-> FALSE],
    RATELIMIT_ENABLED               |-> FALSE,
    RATELIMIT_STORAGE_URL           |-> << >>,
    ROW_LIMIT                       |-> 0 ]

\* a statement raises: the load ends, nothing more is bound
Raise(kind, bound) ==
  /\ pc' = "failed"
  /\ err' = kind
  /\ defined' = defined \cup bound
  /\ UNCHANGED env

\* a statement completes: its names are bound, control passes on
Goto(next, bound) ==
  /\ pc' = next
  /\ defined' = defined \cup bound
  /\ UNCHANGED <<env, err>>

\* line 24
StmtSupersetEnv ==
  /\ pc = "SUPERSET_ENV"
  /\ cfg' = [cfg EXCEPT !.SUPERSET_ENV = EnvGetDefault("SUPERSET_ENV", Production)]
  /\ Goto("SECRET_KEY", {"SUPERSET_ENV"})

\* the key is bound without the check
StmtSecretKeyUnchecked ==
  /\ pc = "SECRET_KEY"
  /\ cfg' = [cfg EXCEPT !.SECRET_KEY = EnvGet("SUPERSET_SECRET_KEY")]
  /\ Goto("SQLALCHEMY_DATABASE_URI", {"SECRET_KEY"})

\* lines 27-29
StmtSecretKey ==
  /\ pc = "SECRET_KEY"
  /\ cfg' = [cfg EXCEPT !.SECRET_KEY = EnvGet("SUPERSET_SECRET_KEY")]
  /\ IF ~Truthy(EnvGet("SUPERSET_SECRET_KEY"))
       THEN Raise("secret", {"SECRET_KEY"})
       ELSE Goto("SQLALCHEMY_DATABASE_URI", {"SECRET_KEY"})

\* lines 35-41
StmtDatabaseUri ==
  /\ pc = "SQLALCHEMY_DATABASE_URI"
  /\ cfg' = [cfg EXCEPT !.SQLALCHEMY_DATABASE_URI = DatabaseUri(EnvGet("DATABASE_URL"))]
  /\ Goto("SQLALCHEMY_ENGINE_OPTIONS", {"SQLALCHEMY_DATABASE_URI"})

\* lines 44-52
StmtEngineOptions ==
  /\ pc = "SQLALCHEMY_ENGINE_OPTIONS"
  /\ IF /\ IsIntText(IntText("SQLALCHEMY_POOL_SIZE"))
        /\ IsIntText(IntText("SQLALCHEMY_MAX_OVERFLOW"))
       THEN /\ cfg' = [cfg EXCEPT !.SQLALCHEMY_ENGINE_OPTIONS =
                         [pool_size |-> IntOf(IntText("SQLALCHEMY_POOL_SIZE")),
                          pool_recycle |-> 3600,
                          pool_pre_ping |-> TRUE,
                          max_overflow |-> IntOf(IntText("SQLALCHEMY_MAX_OVERFLOW")),
                          connect_timeout |-> 10]]
            /\ Goto("SQLLAB_TIMEOUT", {"SQLALCHEMY_ENGINE_OPTIONS"})
       ELSE /\ UNCHANGED cfg
            /\ Raise("value", {})

\* line 55
StmtSqllabTimeout ==
  /\ pc = "SQLLAB_TIMEOUT"
  /\ IF IsIntText(IntText("SQLLAB_TIMEOUT"))
       THEN /\ cfg' = [cfg EXCEPT !.SQLLAB_TIMEOUT = IntOf(IntText("SQLLAB_TIMEOUT"))]
            /\ Goto("SUPERSET_WEBSERVER_TIMEOUT", {"SQLLAB_TIMEOUT"})
       ELSE /\ UNCHANGED cfg
            /\ Raise("value", {})

\* line 56
StmtWebserverTimeout ==
  /\ pc = "SUPERSET_WEBSERVER_TIMEOUT"
  /\ IF IsIntText(IntText("WORKER_TIMEOUT"))
       THEN /\ cfg' = [cfg EXCEPT !.SUPERSET_WEBSERVER_TIMEOUT =
                         IntOf(IntText("WORKER_TIMEOUT"))]
            /\ Goto("REDIS_URL", {"SUPERSET_WEBSERVER_TIMEOUT"})
       ELSE /\ UNCHANGED cfg
            /\ Raise("value", {})

\* lines 59-66: REDIS_URL is bound before its port is parsed
StmtRedisUrl ==
  /\ pc = "REDIS_URL"
  /\ LET url == EnvGetDefault("REDIS_URL", DefaultRedisUrl)
     IN  IF PortRaises(url)
           THEN /\ cfg' = [cfg EXCEPT !.REDIS_URL = url]
                /\ Raise("value", {"REDIS_URL"})
           ELSE /\ cfg' = [cfg EXCEPT
                             !.REDIS_URL = url,
                             !.REDIS_PORT = IF PortOf(url) # 0 THEN PortOf(url)
                                            ELSE RedisDefaultPort]
                /\ Goto("SESSION_REDIS", {"REDIS_URL", "REDIS_PORT"})

\* lines 69-72: the session client is built from the bound REDIS_URL
StmtSessionRedis ==
  /\ pc = "SESSION_REDIS"
  /\ IF FromUrlRaises(cfg.REDIS_URL)
       THEN /\ UNCHANGED cfg
            /\ Raise("value", {})
       ELSE /\ cfg' = [cfg EXCEPT !.SESSION_REDIS = cfg.REDIS_URL]
            /\ Goto("PERMANENT_SESSION_LIFETIME", {"SESSION_REDIS"})

\* lines 73-75: the lifetime, in hours
StmtSessionLifetime ==
  /\ pc = "PERMANENT_SESSION_LIFETIME"
  /\ IF IsIntText(IntText("SESSION_LIFETIME_HOURS"))
       THEN /\ cfg' = [cfg EXCEPT !.PERMANENT_SESSION_LIFETIME =
                         IntOf(IntText("SESSION_LIFETIME_HOURS"))]
            /\ Goto("SESSION_COOKIE_SECURE", {"PERMANENT_SESSION_LIFETIME"})
       ELSE /\ UNCHANGED cfg
            /\ Raise("value", {})

\* line 78
StmtCookieSecure ==
  /\ pc = "SESSION_COOKIE_SECURE"
  /\ cfg' = [cfg EXCEPT !.SESSION_COOKIE_SECURE =
               EnvFlag("SESSION_COOKIE_SECURE", TrueText)]
  /\ Goto("CACHE_CONFIG", {"SESSION_COOKIE_SECURE"})

\* lines 83-93
StmtCacheConfig ==
  /\ pc = "CACHE_CONFIG"
  /\ IF IsIntText(IntText("CACHE_DEFAULT_TIMEOUT"))
       THEN /\ LET timeout == IntOf(IntText("CACHE_DEFAULT_TIMEOUT"))
                   config == CacheConfig(timeout, cfg.REDIS_URL)
               IN  cfg' = [cfg EXCEPT !.CACHE_DEFAULT_TIMEOUT = timeout,
                                      !.CACHE_CONFIG = config,
                                      !.DATA_CACHE_CONFIG = config,
                                      !.THUMBNAIL_CACHE_CONFIG = config]
            /\ Goto("CeleryConfig",
                    {"CACHE_DEFAULT_TIMEOUT", "CACHE_CONFIG", "DATA_CACHE_CONFIG",
                     "THUMBNAIL_CACHE_CONFIG"})
       ELSE /\ UNCHANGED cfg
            /\ Raise("value", {})

\* lines 96-123
StmtCeleryConfig ==
  /\ pc = "CeleryConfig"
  /\ cfg' = [cfg EXCEPT !.CeleryConfig = CeleryUrls(cfg.REDIS_URL)]
  /\ Goto("WEBDRIVER_BASEURL", {"CeleryConfig"})

\* lines 137-146
StmtWebdriverBaseUrl ==
  /\ pc = "WEBDRIVER_BASEURL"
  /\ cfg' = [cfg EXCEPT !.WEBDRIVER_BASEURL = BaseUrl(RailwayDomain),
                        !.WEBDRIVER_BASEURL_USER_FRIENDLY = BaseUrl(RailwayDomain)]
  /\ Goto("SMTP_PORT", {"WEBDRIVER_BASEURL", "WEBDRIVER_BASEURL_USER_FRIENDLY"})

\* line 150
StmtSmtpPort ==
  /\ pc = "SMTP_PORT"
  /\ IF IsIntText(IntText("SMTP_PORT"))
       THEN /\ cfg' = [cfg EXCEPT !.SMTP_PORT = IntOf(IntText("SMTP_PORT"))]
            /\ Goto("TALISMAN_ENABLED", {"SMTP_PORT"})
       ELSE /\ UNCHANGED cfg
            /\ Raise("value", {})

\* the security headers are configured whatever the flag
StmtTalismanAlways ==
  /\ pc = "TALISMAN_ENABLED"
  /\ cfg' = [cfg EXCEPT !.TALISMAN_ENABLED = EnvFlag("TALISMAN_ENABLED", TrueText),
                        !.TALISMAN_CONFIG = TalismanConfig]
  /\ Goto("RATELIMIT_ENABLED", {"TALISMAN_ENABLED", "TALISMAN_CONFIG"})

\* lines 166-181
StmtTalisman ==
  /\ pc = "TALISMAN_ENABLED"
  /\ IF EnvFlag("TALISMAN_ENABLED", TrueText)
       THEN /\ cfg' = [cfg EXCEPT !.TALISMAN_ENABLED = TRUE,
                                  !.TALISMAN_CONFIG = TalismanConfig]
            /\ Goto("RATELIMIT_ENABLED", {"TALISMAN_ENABLED", "TALISMAN_CONFIG"})
       ELSE /\ cfg' = [cfg EXCEPT !.TALISMAN_ENABLED = FALSE]
            /\ Goto("RATELIMIT_ENABLED", {"TALISMAN_ENABLED"})

\* lines 192-194
StmtRateLimit ==
  /\ pc = "RATELIMIT_ENABLED"
  /\ IF EnvFlag("RATELIMIT_ENABLED", TrueText)
       THEN /\ cfg' = [cfg EXCEPT !.RATELIMIT_ENABLED = TRUE,
                                  !.RATELIMIT_STORAGE_URL = cfg.REDIS_URL]
            /\ Goto("ROW_LIMIT", {"RATELIMIT_ENABLED", "RATELIMIT_STORAGE_URL"})
       ELSE /\ cfg' = [cfg EXCEPT !.RATELIMIT_ENABLED = FALSE]
            /\ Goto("ROW_LIMIT", {"RATELIMIT_ENABLED"})

\* line 204, the last statement that can raise; the load is then complete
StmtRowLimit ==
  /\ pc = "ROW_LIMIT"
  /\ IF IsIntText(IntText("ROW_LIMIT"))
       THEN /\ cfg' = [cfg EXCEPT !.ROW_LIMIT = IntOf(IntText("ROW_LIMIT"))]
            /\ Goto("loaded", {"ROW_LIMIT"})
       ELSE /\ UNCHANGED cfg
            /\ Raise("value", {})

Next ==
  \/ StmtSupersetEnv
  \/ StmtSecretKey
  \/ StmtDatabaseUri
  \/ StmtEngineOptions
  \/ StmtSqllabTimeout
  \/ StmtWebserverTimeout
  \/ StmtRedisUrl
  \/ StmtSessionRedis
  \/ StmtSessionLifetime
  \/ StmtCookieSecure
  \/ StmtCacheConfig
  \/ StmtCeleryConfig
  \/ StmtWebdriverBaseUrl
  \/ StmtSmtpPort
  \/ StmtTalisman
  \/ StmtRateLimit
  \/ StmtRowLimit

----------------------------------------------------------------------------
(* Environments the load is started in                                     *)

\* at most MaxSet optional variables are set in an environment of Spec
MaxSet == 2

\* a generated text is the concatenation of at most MaxChunks chunks
MaxChunks == 2

FlagVars == {"SESSION_COOKIE_SECURE", "TALISMAN_ENABLED", "RATELIMIT_ENABLED"}

RailwayVars == {"RAILWAY_PUBLIC_DOMAIN", "RAILWAY_STATIC_URL"}

OptionalVars ==
  {"SUPERSET_ENV", "DATABASE_URL", "REDIS_URL"}
    \cup IntVars \cup FlagVars \cup RailwayVars

EnvVars == {"SUPERSET_SECRET_KEY"} \cup OptionalVars

SecretValues == {None, Some(<< >>), Some(<<"s","3","c","r","e","t">>)}

IntSamples == { <<"4","2">>, <<"4","x">>, << >> }

FlagSamples ==
  { <<"t","r","u","e">>, <<"T","r","u","e">>, <<"f","a","l","s","e">>,
    <<"1">>, <<"y","e","s">>, << >> }

RedisSamples ==
  { <<"r","e","d","i","s",":","/","/","h",":","6","3","8","0","/","1">>,
    <<"r","e","d","i","s",":","/","/","h",":","x","/","1">>,
    <<"h","t","t","p",":","/","/","h","/","1">> }

DatabaseSamples ==
  { <<"p","o","s","t","g","r","e","s",":","/","/","u","@","h","/","d","b">>,
    <<"m","y","s","q","l",":","/","/","h","/","d","b">>,
    << >> }

RailwaySamples ==
  { <<"a",".","c","o">>,
    <<"h","t","t","p","s",":","/","/","a",".","c","o">>,
    <<"h","t","t","p","s",":","/","/","a",".","c","o","/">>,
    <<"h","t","t","p","a",".","c","o">>,
    << >> }

\* the sample texts of an optional variable
Samples(v) ==
  IF v \in IntVars THEN IntSamples
  ELSE IF v \in FlagVars THEN FlagSamples
  ELSE IF v \in RailwayVars THEN RailwaySamples
  ELSE IF v = "REDIS_URL" THEN RedisSamples
  ELSE IF v = "DATABASE_URL" THEN DatabaseSamples
  ELSE { <<"d","e","v">> }

\* the environment with no variable set
Empty == [v \in EnvVars |-> None]

\* the environments with at most k optional variables set, from the samples
RECURSIVE EnvsUpTo(_)
EnvsUpTo(k) ==
  IF k = 0 THEN {Empty}
  ELSE LET less == EnvsUpTo(k - 1)
       IN  less \cup UNION { { [e EXCEPT ![v] = Some(x)] : x \in Samples(v) } :
                               e \in less, v \in OptionalVars }

\* the concatenations of at most n chunks
RECURSIVE Texts(_, _)
Texts(chunks, n) ==
  IF n = 0 THEN { << >> }
  ELSE LET less == Texts(chunks, n - 1)
       IN  less \cup { t \o c : t \in less, c \in chunks }

DatabaseChunks == { PostgresScheme, PostgresqlScheme, <<"h","/","d","b">> }

RailwayChunks == { Https, Http, <<"a",".","c","o">>, Slash }

\* absent, or any generated text
Optional(texts) == {None} \cup { Some(t) : t \in texts }

Start(e) ==
  /\ env = e
  /\ pc = "SUPERSET_ENV"
  /\ err = "none"
  /\ cfg = Unbound
  /\ defined = {}

\* any secret key, and at most MaxSet optional variables set
Init ==
  \E e \in EnvsUpTo(MaxSet), k \in SecretValues :
    Start([e EXCEPT !["SUPERSET_SECRET_KEY"] = k])

\* any secret key, any generated DATABASE_URL, at most one other variable set
InitDb ==
  \E e \in EnvsUpTo(1), k \in SecretValues,
     d \in Optional(Texts(DatabaseChunks, MaxChunks)) :
    Start([e EXCEPT !["SUPERSET_SECRET_KEY"] = k, !["DATABASE_URL"] = d])

\* any secret key, any generated RAILWAY_PUBLIC_DOMAIN and RAILWAY_STATIC_URL
InitUrl ==
  \E k \in SecretValues,
     d \in Optional(Texts(RailwayChunks, MaxChunks)),
     u \in Optional(Texts(RailwayChunks, MaxChunks)) :
    Start([Empty EXCEPT !["SUPERSET_SECRET_KEY"] = k,
                        !["RAILWAY_PUBLIC_DOMAIN"] = d,
                        !["RAILWAY_STATIC_URL"] = u])

Spec == Init /\ [][Next]_vars

SpecDb == InitDb /\ [][Next]_vars

SpecUrl == InitUrl /\ [][Next]_vars

----------------------------------------------------------------------------
(* Properties                                                              *)

Secret == env["SUPERSET_SECRET_KEY"]

Bound(name) == name \in defined

\* C1: the load fails with the secret-key error whenever SUPERSET_SECRET_KEY
\* is absent or empty (it never gets past the check and can only end failed,
\* with that error); whenever the key is a non-empty text and the load
\* completes, SECRET_KEY is that text.
SecretKeyRequired ==
  /\ (Secret = None \/ Secret = Some(<< >>)) =>
       /\ pc \in {"SUPERSET_ENV", "SECRET_KEY", "failed"}
       /\ pc = "failed" => err = "secret"
  /\ (Secret # None /\ Secret # Some(<< >>) /\ pc = "loaded") =>
       /\ Bound("SECRET_KEY")
       /\ cfg.SECRET_KEY = Secret

\* C1 witness: a load without SUPERSET_SECRET_KEY has ended in the error
SecretKeyAbsentFailed ==
  Secret = None /\ pc = "failed" /\ err = "secret"

\* C2: with a non-empty secret key the load never fails, whatever the other
\* variables hold, and a variable holding text that is no integer takes its
\* default.
OthersDegradeToDefaults ==
  Truthy(Secret) =>
    /\ pc # "failed"
    /\ (Bound("SQLALCHEMY_ENGINE_OPTIONS")
          /\ env["SQLALCHEMY_POOL_SIZE"] = Some(<<"4","x">>)) =>
         cfg.SQLALCHEMY_ENGINE_OPTIONS.pool_size = 10

\* C3: a DATABASE_URL starting with 'postgres://' becomes 'postgresql://'
\* followed by the unchanged remainder; any other DATABASE_URL is kept as it
\* is; an absent DATABASE_URL gives None.
DatabaseSchemeRewritten ==
  Bound("SQLALCHEMY_DATABASE_URI") =>
    LET url == env["DATABASE_URL"]
        uri == cfg.SQLALCHEMY_DATABASE_URI
    IN  /\ url = None => uri = None
        /\ (url # None /\ StartsWith(url[1], PostgresScheme)) =>
             uri = Some(PostgresqlScheme
                        \o SubSeq(url[1], Len(PostgresScheme) + 1, Len(url[1])))
        /\ (url # None /\ ~StartsWith(url[1], PostgresScheme)) => uri = url

\* C3 witness: a URL with a second 'postgres://' after the leading one has
\* been rewritten
DatabaseSchemeTwice ==
  /\ Bound("SQLALCHEMY_DATABASE_URI")
  /\ env["DATABASE_URL"] = Some(PostgresScheme \o PostgresScheme)

PublicDomain == env["RAILWAY_PUBLIC_DOMAIN"]

StaticUrl == env["RAILWAY_STATIC_URL"]

\* C4: a bare RAILWAY_PUBLIC_DOMAIN d (non-empty, not beginning with 'http')
\* gives 'https://' + d + '/'; one beginning with 'http' is kept, with one
\* '/' appended only if it does not end with '/'; with neither variable set
\* the base URL is 'http://localhost:8088/'.
BaseUrlFromDomain ==
  Bound("WEBDRIVER_BASEURL") =>
    LET base == cfg.WEBDRIVER_BASEURL
    IN  /\ (PublicDomain # None /\ PublicDomain[1] # << >>
              /\ ~StartsWith(PublicDomain[1], Http)) =>
             base = Https \o PublicDomain[1] \o Slash
        /\ (PublicDomain # None /\ StartsWith(PublicDomain[1], Http)) =>
             base = IF PublicDomain[1][Len(PublicDomain[1])] = "/"
                      THEN PublicDomain[1]
                      ELSE PublicDomain[1] \o Slash
        /\ (PublicDomain = None /\ StaticUrl = None) => base = LocalBaseUrl

\* C4 witness: the base URL has been derived from the bare domain 'a.co'
BaseUrlFromBareDomain ==
  Bound("WEBDRIVER_BASEURL") /\ PublicDomain = Some(<<"a",".","c","o">>)

\* the text is 'true' in any mix of upper and lower case
IsTrueAnyCase(s) ==
  /\ Len(s) = 4
  /\ s[1] \in {"t", "T"} /\ s[2] \in {"r", "R"}
  /\ s[3] \in {"u", "U"} /\ s[4] \in {"e", "E"}

\* C5: SESSION_COOKIE_SECURE is true when the variable is absent, false when
\* it is 'false', and in general true exactly when the value lower-cased is
\* 'true' ('1', 'yes' and '' give false).
CookieSecureFlag ==
  Bound("SESSION_COOKIE_SECURE") =>
    LET v == env["SESSION_COOKIE_SECURE"]
    IN  /\ v = None => cfg.SESSION_COOKIE_SECURE
        /\ v = Some(<<"f","a","l","s","e">>) => ~cfg.SESSION_COOKIE_SECURE
        /\ v # None => (cfg.SESSION_COOKIE_SECURE <=> IsTrueAnyCase(v[1]))

\* C5 witness: the flag has been derived from the mixed-case value 'True'
CookieSecureMixedCase ==
  /\ Bound("SESSION_COOKIE_SECURE")
  /\ env["SESSION_COOKIE_SECURE"] = Some(<<"T","r","u","e">>)

\* C6: after a successful load the session store, the three cache
\* configurations, the Celery broker and result backend and, when rate
\* limiting is enabled, the rate-limit storage all use REDIS_URL, which is
\* the environment's value when set and 'redis://localhost:6379/0' otherwise.
OneRedisUrl ==
  pc = "loaded" =>
    LET url == IF env["REDIS_URL"] = None
                 THEN <<"r","e","d","i","s",":","/","/","l","o","c","a","l",
                        "h","o","s","t",":","6","3","7","9","/","0">>
                 ELSE env["REDIS_URL"][1]
    IN  /\ cfg.REDIS_URL = url
        /\ cfg.SESSION_REDIS = url
        /\ cfg.CACHE_CONFIG.CACHE_REDIS_URL = url
        /\ cfg.DATA_CACHE_CONFIG.CACHE_REDIS_URL = url
        /\ cfg.THUMBNAIL_CACHE_CONFIG.CACHE_REDIS_URL = url
        /\ cfg.CeleryConfig.broker_url = url
        /\ cfg.CeleryConfig.result_backend = url
        /\ cfg.RATELIMIT_ENABLED => cfg.RATELIMIT_STORAGE_URL = url

\* C6 witness: a load with REDIS_URL set and rate limiting on has completed
OneRedisUrlFromEnv ==
  pc = "loaded" /\ env["REDIS_URL"] # None /\ cfg.RATELIMIT_ENABLED

\* C7 (as stated): when SUPERSET_SECRET_KEY is absent or empty the load stops
\* at the secret-key error before any later statement runs, the failure is
\* the secret-key error, and no name beyond SUPERSET_ENV is ever defined.
SecretFailureDefinesOnlyEnv ==
  ~Truthy(Secret) =>
    /\ pc \in {"SUPERSET_ENV", "SECRET_KEY", "failed"}
    /\ pc = "failed" => err = "secret"
    /\ defined \subseteq {"SUPERSET_ENV"}

\* C7 (amended): when SUPERSET_SECRET_KEY is absent or empty the load stops
\* at the secret-key error before any later statement runs, the failure is
\* the secret-key error, and no name beyond SUPERSET_ENV and SECRET_KEY
\* itself, bound to the absent or empty key, is ever defined.
SecretFailureFirst ==
  ~Truthy(Secret) =>
    /\ pc \in {"SUPERSET_ENV", "SECRET_KEY", "failed"}
    /\ pc = "failed" => err = "secret"
    /\ defined \subseteq {"SUPERSET_ENV", "SECRET_KEY"}
    /\ Bound("SECRET_KEY") => (cfg.SECRET_KEY = Secret /\ pc = "failed")

\* C7 witness: a load with an empty key and a malformed integer has failed
SecretFailureWithMalformedInt ==
  /\ Secret = Some(<< >>)
  /\ env["SQLALCHEMY_POOL_SIZE"] = Some(<<"4","x">>)
  /\ pc = "failed"

\* C8 (as stated): RAILWAY_STATIC_URL is used only when RAILWAY_PUBLIC_DOMAIN
\* is absent, and whenever at least one of the two is non-empty the base URL
\* is built from one of them, not the localhost fallback.
BaseUrlFromEitherVariable ==
  Bound("WEBDRIVER_BASEURL") =>
    /\ PublicDomain # None => cfg.WEBDRIVER_BASEURL = BaseUrl(PublicDomain[1])
    /\ (Truthy(PublicDomain) \/ Truthy(StaticUrl)) =>
         /\ cfg.WEBDRIVER_BASEURL # LocalBaseUrl
         /\ cfg.WEBDRIVER_BASEURL \in
              { BaseUrl(o[1]) : o \in {o \in {PublicDomain, StaticUrl} : Truthy(o)} }

\* C8 (amended): RAILWAY_STATIC_URL is used only when RAILWAY_PUBLIC_DOMAIN
\* is absent; the base URL is built from RAILWAY_PUBLIC_DOMAIN when that is
\* non-empty and from RAILWAY_STATIC_URL when RAILWAY_PUBLIC_DOMAIN is absent
\* and RAILWAY_STATIC_URL is non-empty; when RAILWAY_PUBLIC_DOMAIN is set to
\* the empty text the localhost fallback is used whatever RAILWAY_STATIC_URL
\* holds.
BaseUrlPrecedence ==
  Bound("WEBDRIVER_BASEURL") =>
    /\ PublicDomain # None => cfg.WEBDRIVER_BASEURL = BaseUrl(PublicDomain[1])
    /\ Truthy(PublicDomain) => cfg.WEBDRIVER_BASEURL # LocalBaseUrl
    /\ (PublicDomain = None /\ Truthy(StaticUrl)) =>
         /\ cfg.WEBDRIVER_BASEURL = BaseUrl(StaticUrl[1])
         /\ cfg.WEBDRIVER_BASEURL # LocalBaseUrl
    /\ PublicDomain = Some(<< >>) => cfg.WEBDRIVER_BASEURL = LocalBaseUrl

\* C8 witness: the base URL has been derived with RAILWAY_PUBLIC_DOMAIN empty
\* and RAILWAY_STATIC_URL non-empty
BaseUrlEmptyDomainStaticSet ==
  /\ Bound("WEBDRIVER_BASEURL")
  /\ PublicDomain = Some(<< >>)
  /\ Truthy(StaticUrl)

\* C9: after the base URL is derived it ends with '/' and begins with
\* 'http://' or 'https://', and the user-friendly base URL equals it.
BaseUrlWellFormed ==
  Bound("WEBDRIVER_BASEURL") =>
    /\ EndsWith(cfg.WEBDRIVER_BASEURL, Slash)
    /\ \/ StartsWith(cfg.WEBDRIVER_BASEURL, <<"h","t","t","p",":","/","/">>)
       \/ StartsWith(cfg.WEBDRIVER_BASEURL, Https)
    /\ cfg.WEBDRIVER_BASEURL_USER_FRIENDLY = cfg.WEBDRIVER_BASEURL

\* C10: after a successful load TALISMAN_CONFIG is defined exactly when
\* TALISMAN_ENABLED is true and RATELIMIT_STORAGE_URL exactly when
\* RATELIMIT_ENABLED is true; a setting whose flag is false is left
\* undefined, holding no value at all.
OptionalSettingsFollowFlags ==
  pc = "loaded" =>
    /\ Bound("TALISMAN_CONFIG") <=> cfg.TALISMAN_ENABLED
    /\ Bound("RATELIMIT_STORAGE_URL") <=> cfg.RATELIMIT_ENABLED
    /\ ~cfg.TALISMAN_ENABLED => cfg.TALISMAN_CONFIG = Unbound.TALISMAN_CONFIG
    /\ ~cfg.RATELIMIT_ENABLED =>
         cfg.RATELIMIT_STORAGE_URL = Unbound.RATELIMIT_STORAGE_URL
    /\ cfg.TALISMAN_ENABLED <=>
         (env["TALISMAN_ENABLED"] = None \/ IsTrueAnyCase(env["TALISMAN_ENABLED"][1]))
    /\ cfg.RATELIMIT_ENABLED <=>
         (env["RATELIMIT_ENABLED"] = None \/ IsTrueAnyCase(env["RATELIMIT_ENABLED"][1]))

\* C10 witness: a load with both flags off has completed
OptionalSettingsOff ==
  pc = "loaded" /\ ~cfg.TALISMAN_ENABLED /\ ~cfg.RATELIMIT_ENABLED

====
